---- MODULE Spec2Model ----
(***************************************************************************)
(* Engagement-segment selection of the YouTube-to-Shorts pipeline          *)
(* (src/clips.py): _combine_segments, the text/audio scorers, their        *)
(* fusion, and analyze_engagement's pool / sort / filter / truncate.       *)
(*                                                                         *)
(* Times are whole seconds.  Scores are fixed point: Unit stands for 1.0.  *)
(* A text is a sequence of one-character strings.                          *)
(***************************************************************************)
EXTENDS Integers, Sequences, FiniteSets, TLC

\* ---------------------------------------------------------------- bounds
\* Transcripts of up to MaxSegs segments of any kind ...
MaxSegs == 3
\* ... which may be followed by long segments up to MaxLong in total.
MaxLong == 7
MaxPipeSegs == 3
MaxNameLen == 3
MaxPrompts == 3
LongRepeat == 30

\* ------------------------------------------------------ program constants
Unit == 100000
TargetDuration == 30
MinCombined == 10
AtomicMin == 10
MinClip == 10
MaxClip == 60
TopN == 10
MaxFilename == 80

\* ------------------------------------------------------------ arithmetic
Min(a, b) == IF a <= b THEN a ELSE b

Max(a, b) == IF a >= b THEN a ELSE b

Abs(a) == IF a < 0 THEN -a ELSE a

\* ------------------------------------------------------------------ text
IsSpace(c) == c \in {" ", "\t", "\n"}

RECURSIVE LStrip(_)
LStrip(t) == IF t # <<>> /\ IsSpace(Head(t)) THEN LStrip(Tail(t)) ELSE t

RECURSIVE RStrip(_)
RStrip(t) ==
  IF t # <<>> /\ IsSpace(t[Len(t)]) THEN RStrip(SubSeq(t, 1, Len(t) - 1)) ELSE t

\* Mutant: lstrip() in place of strip().
StripLeftOnly(t) == LStrip(t)

\* str.strip()
Strip(t) == RStrip(LStrip(t))

UpperChars == <<"A", "B", "C", "D", "E", "F", "G", "H", "I", "J", "K", "L", "M",
                "N", "O", "P", "Q", "R", "S", "T", "U", "V", "W", "X", "Y", "Z">>

LowerChars == <<"a", "b", "c", "d", "e", "f", "g", "h", "i", "j", "k", "l", "m",
                "n", "o", "p", "q", "r", "s", "t", "u", "v", "w", "x", "y", "z">>

LowerChar(c) ==
  IF \E i \in 1..Len(UpperChars) : UpperChars[i] = c
  THEN LowerChars[CHOOSE i \in 1..Len(UpperChars) : UpperChars[i] = c]
  ELSE c

\* str.lower()
Lower(t) == [i \in 1..Len(t) |-> LowerChar(t[i])]

\* str.count(p): occurrences found left to right, the search resuming after
\* the end of each occurrence
\* Mutant: the search resumes one character after the start of an occurrence.
RECURSIVE CountOverlapping(_, _, _)
CountOverlapping(t, p, i) ==
  IF i + Len(p) - 1 > Len(t) THEN 0
  ELSE IF SubSeq(t, i, i + Len(p) - 1) = p
       THEN 1 + CountOverlapping(t, p, i + 1)
       ELSE CountOverlapping(t, p, i + 1)

RECURSIVE CountFrom(_, _, _)
CountFrom(t, p, i) ==
  IF i + Len(p) - 1 > Len(t) THEN 0
  ELSE IF SubSeq(t, i, i + Len(p) - 1) = p
       THEN 1 + CountFrom(t, p, i + Len(p))
       ELSE CountFrom(t, p, i + 1)

StrCount(t, p) == CountFrom(t, p, 1)

\* len(re.findall(c, text)) for a one-character pattern
CharCount(t, c) == Cardinality({i \in 1..Len(t) : t[i] = c})

\* len(text.split()): the maximal runs of non-whitespace
WordCount(t) ==
  Cardinality({i \in 1..Len(t) :
                 /\ ~IsSpace(t[i])
                 /\ (i = 1 \/ IsSpace(t[i - 1]))})

\* ------------------------------------------------------------- segments
\* A Whisper segment as the analysis reads it: start, end, text.
Seg(s, e, t) == [start |-> s, end |-> e, text |-> t]

\* The kinds of segment the transcriber yields here: a duration and a text.
SegmentKinds ==
  { [dur |-> 12, text |-> <<" ", "W", "o", "w", "!">>],
    [dur |-> 8,  text |-> <<"E", "h", "?">>],
    [dur |-> 25, text |-> <<"H", "a", "h", "a", " ", "l", "o", "l", " ">>],
    [dur |-> 45, text |-> <<"a", " ", "b", " ", "c", " ", "d", " ", "e">>],
    [dur |-> 12, text |-> <<>>] }

LongKinds == {k \in SegmentKinds : k.dur >= TargetDuration}

KindsAt(n) == IF n < MaxSegs THEN SegmentKinds ELSE LongKinds

LastEnd(ts) == IF ts = <<>> THEN 0 ELSE ts[Len(ts)].end

\* ----------------------------------------------------- _combine_segments
NoStart == <<>>

\* The loop's locals before the first segment (current_segments is only
\* appended to and reset, never read, and is left out).  closed records, per
\* input position, whether the running group was closed there.
CombineInit ==
  [combined |-> <<>>, current_start |-> NoStart, current_text |-> <<>>,
   closed |-> <<>>]

\* The condition of the `if` that closes the running group; dict == dict
\* compares the segments by value.
ClosesGroup(segment, current_duration, segments, target_duration) ==
  current_duration >= target_duration \/ segment = segments[Len(segments)]

\* Mutant: the minimum duration of a closed group forgotten.
KeepsGroupAny(current_duration) == current_duration >= 1

\* The closed group is kept only from the minimum duration on.
KeepsGroup(current_duration) == current_duration >= MinCombined

\* Mutant: a kept group ends target_duration after its start.
CombineStepTargetEnd(acc, segment, segments, target_duration) ==
  LET current_start ==
        IF acc.current_start = NoStart THEN segment.start
        ELSE acc.current_start[1]
      current_text == acc.current_text \o <<" ">> \o Strip(segment.text)
      current_duration == segment.end - current_start
      closes == ClosesGroup(segment, current_duration, segments, target_duration)
      emitted ==
        IF KeepsGroup(current_duration)
        THEN Append(acc.combined,
                    [start |-> current_start,
                     end |-> current_start + target_duration,
                     text |-> Strip(current_text), source |-> "combined"])
        ELSE acc.combined
  IN IF closes
     THEN [combined |-> emitted, current_start |-> NoStart,
           current_text |-> <<>>, closed |-> Append(acc.closed, TRUE)]
     ELSE [combined |-> acc.combined, current_start |-> <<current_start>>,
           current_text |-> current_text, closed |-> Append(acc.closed, FALSE)]

\* One iteration of the loop over the segments.
CombineStep(acc, segment, segments, target_duration) ==
  LET current_start ==
        IF acc.current_start = NoStart THEN segment.start
        ELSE acc.current_start[1]
      current_text == acc.current_text \o <<" ">> \o Strip(segment.text)
      current_duration == segment.end - current_start
      closes == ClosesGroup(segment, current_duration, segments, target_duration)
      emitted ==
        IF KeepsGroup(current_duration)
        THEN Append(acc.combined,
                    [start |-> current_start, end |-> segment.end,
                     text |-> Strip(current_text), source |-> "combined"])
        ELSE acc.combined
  IN IF closes
     THEN [combined |-> emitted, current_start |-> NoStart,
           current_text |-> <<>>, closed |-> Append(acc.closed, TRUE)]
     ELSE [combined |-> acc.combined, current_start |-> <<current_start>>,
           current_text |-> current_text, closed |-> Append(acc.closed, FALSE)]

RECURSIVE CombineLoop(_, _, _, _)
CombineLoop(acc, i, segments, target_duration) ==
  IF i > Len(segments) THEN acc
  ELSE CombineLoop(CombineStep(acc, segments[i], segments, target_duration),
                   i + 1, segments, target_duration)

\* The list _combine_segments returns.
_combine_segments(segments, target_duration) ==
  CombineLoop(CombineInit, 1, segments, target_duration).combined

\* Where _combine_segments closed its running group, per input position.
CombineClosed(segments, target_duration) ==
  CombineLoop(CombineInit, 1, segments, target_duration).closed

\* ---------------------------------------------- _analyze_text_engagement
\* n/d of 1.0 in fixed point
Frac(n, d) == (n * Unit) \div d

\* 'haha', 'lol', 'lmao' and the three emoji glyphs (each glyph is one
\* character, written here by its code point)
laughter_patterns ==
  << <<"h", "a", "h", "a">>, <<"l", "o", "l">>, <<"l", "m", "a", "o">>,
     <<"U+1F602">>, <<"U+1F604">>, <<"U+1F606">> >>

RECURSIVE SumCounts(_, _, _)
SumCounts(t, pats, i) ==
  IF i > Len(pats) THEN 0
  ELSE StrCount(t, pats[i]) + SumCounts(t, pats, i + 1)

laughter_count(text) == SumCounts(Lower(text), laughter_patterns, 1)

\* polarity is the answer of the sentiment collaborator (TextBlob), in
\* fixed point within [-Unit, Unit].
\* The five amounts added to score, in the order of the code.
TextParts(text, polarity) ==
  LET word_count == WordCount(text)
  IN [sentiment |-> (Abs(polarity) * 3) \div 10,
      questions |-> Min(CharCount(text, "?") * Frac(2, 10), Frac(3, 10)),
      exclamations |-> Min(CharCount(text, "!") * Frac(15, 100), Frac(2, 10)),
      laughter |-> Min(laughter_count(text) * Frac(1, 10), Frac(2, 10)),
      bonus |-> IF 5 <= word_count /\ word_count <= 50
                THEN Frac(1, 10) ELSE 0]

NoParts ==
  [sentiment |-> 0, questions |-> 0, exclamations |-> 0, laughter |-> 0,
   bonus |-> 0]

SumParts(parts) ==
  parts.sentiment + parts.questions + parts.exclamations + parts.laughter
  + parts.bonus

\* Mutant: the final min(score, 1.0) left out.
TextScoreUnclamped(text, polarity) ==
  IF text = <<>> THEN 0 ELSE SumParts(TextParts(text, polarity))

_analyze_text_engagement(text, polarity) ==
  IF text = <<>> THEN 0
  ELSE Min(SumParts(TextParts(text, polarity)), Unit)

\* --------------------------------------------- _analyze_audio_engagement
\* A decoded waveform: n samples at sr samples per second.  The signal is
\* stationary: every non-empty slice of it has the same root mean square
\* (rms, fixed point), mean spectral centroid (centroid, Hz) and mean
\* zero-crossing rate (zcr, fixed point), the last two being what the
\* spectral collaborator (librosa.feature) answers.
Wave(n, sr, rms, centroid, zcr) ==
  [n |-> n, sr |-> sr, rms |-> rms, centroid |-> centroid, zcr |-> zcr]

\* int(t * sample_rate); the times are whole seconds
ToSample(t, sample_rate) == t * sample_rate

\* A slice bound as Python's sequence slicing reads it: a negative index
\* counts from the end, and the result is clipped to 0..n.
SliceIndex(i, n) == IF i < 0 THEN Max(n + i, 0) ELSE Min(i, n)

\* len(audio[start_sample:end_sample])
SliceLen(n, start_sample, end_sample) ==
  Max(SliceIndex(end_sample, n) - SliceIndex(start_sample, n), 0)

_analyze_audio_engagement(audio, sample_rate, start_time, end_time) ==
  LET start_sample == ToSample(start_time, sample_rate)
      end_sample == ToSample(end_time, sample_rate)
  IN IF SliceLen(audio.n, start_sample, end_sample) = 0 THEN 0
     ELSE Min(Min(audio.rms * 10, Frac(4, 10))
              + Min((audio.centroid * Unit) \div 5000, Frac(3, 10))
              + Min(audio.zcr * 2, Frac(3, 10)),
              Unit)

\* ------------------------------------------- _calculate_engagement_score
\* Mutant: the two weights swapped.
WeightsSwapped(text, audio, sample_rate, start_time, end_time, polarity) ==
  LET text_score == _analyze_text_engagement(text, polarity)
      audio_score ==
        _analyze_audio_engagement(audio, sample_rate, start_time, end_time)
  IN Min((text_score * 6) \div 10 + (audio_score * 4) \div 10, Unit)

_calculate_engagement_score(text, audio, sample_rate, start_time, end_time, polarity) ==
  LET text_score == _analyze_text_engagement(text, polarity)
      audio_score ==
        _analyze_audio_engagement(audio, sample_rate, start_time, end_time)
  IN Min((text_score * 4) \div 10 + (audio_score * 6) \div 10, Unit)

\* ---------------------------------------------------- analyze_engagement
\* Mutant: the loops store each stripped text back into its segment.
StripInPlace(whisper_segments) ==
  [i \in 1..Len(whisper_segments) |->
     [whisper_segments[i] EXCEPT !.text = Strip(whisper_segments[i].text)]]

\* The input list once the loops have gone over it: they read
\* segment['start'], segment['end'] and segment['text'] (strip() builds a
\* new string), build new dicts for what they emit, and sort a list of
\* their own.
SegmentsAfter(whisper_segments) == whisper_segments

\* transcript_data.get('segments', [])
GetSegments(has_key, segs) == IF has_key THEN segs ELSE <<>>

\* Mutant: the atomic threshold taken from min_clip_duration of config.py.
IsLongConfig(seg) == seg.end - seg.start >= 15

\* [seg for seg in whisper_segments if seg['end'] - seg['start'] >= 10]
\* Mutant: a segment is an atomic candidate from a duration of 0 on.
IsLongFromZero(seg) == seg.end - seg.start >= 0

IsLong(seg) == seg.end - seg.start >= AtomicMin

\* sum(seg['end'] - seg['start'] for seg in whisper_segments)
RECURSIVE SumDurations(_, _)
SumDurations(whisper_segments, i) ==
  IF i > Len(whisper_segments) THEN 0
  ELSE whisper_segments[i].end - whisper_segments[i].start
       + SumDurations(whisper_segments, i + 1)

\* The division that gives avg_duration: what is divided, and by what.
AvgDuration(whisper_segments) ==
  [dividend |-> SumDurations(whisper_segments, 1),
   divisor |-> Len(whisper_segments)]

long_segments(whisper_segments) == SelectSeq(whisper_segments, IsLong)

\* Mutant: an atomic segment whose span a combined candidate already has
\* is left out of the pool.
AllCandidatesDedup(combined, long) ==
  LET covered(seg) ==
        \E i \in 1..Len(combined) :
          combined[i].start = seg.start /\ combined[i].end = seg.end
      fresh(seg) == ~covered(seg)
  IN combined \o SelectSeq(long, fresh)

\* all_candidates = combined_segments + long_segments
AllCandidates(combined, long) == combined \o long

\* segment.get('source', 'unknown')
GetSource(segment) ==
  IF "source" \in DOMAIN segment THEN segment.source ELSE "unknown"

\* The dict appended to `segments` for one candidate.
ScoreCandidate(segment, audio, polarity) ==
  LET text == Strip(segment.text)
  IN [start_time |-> segment.start,
      end_time |-> segment.end,
      text |-> text,
      engagement_score |->
        _calculate_engagement_score(text, audio, audio.sr, segment.start,
                                    segment.end, polarity),
      duration |-> segment.end - segment.start,
      source |-> GetSource(segment)]

ScoreAll(candidates, audio, polarity) ==
  [i \in 1..Len(candidates) |-> ScoreCandidate(candidates[i], audio, polarity)]

\* Mutant: ascending order (reverse=True forgotten).
InsertAsc(sorted, x) ==
  LET k == Cardinality({i \in 1..Len(sorted) :
                          sorted[i].engagement_score <= x.engagement_score})
  IN SubSeq(sorted, 1, k) \o <<x>> \o SubSeq(sorted, k + 1, Len(sorted))

\* Mutant: descending, but x goes in front of the entries with its score
\* (what reversing an ascending stable sort would give).
InsertDescTiesReversed(sorted, x) ==
  LET k == Cardinality({i \in 1..Len(sorted) :
                          sorted[i].engagement_score > x.engagement_score})
  IN SubSeq(sorted, 1, k) \o <<x>> \o SubSeq(sorted, k + 1, Len(sorted))

\* list.sort(key=engagement_score, reverse=True): a stable sort, so that x
\* goes behind every entry whose score is at least its own.
InsertDesc(sorted, x) ==
  LET k == Cardinality({i \in 1..Len(sorted) :
                          sorted[i].engagement_score >= x.engagement_score})
  IN SubSeq(sorted, 1, k) \o <<x>> \o SubSeq(sorted, k + 1, Len(sorted))

RECURSIVE SortFrom(_, _, _)
SortFrom(sorted, seq, i) ==
  IF i > Len(seq) THEN sorted
  ELSE SortFrom(InsertDesc(sorted, seq[i]), seq, i + 1)

SortByScore(seq) == SortFrom(<<>>, seq, 1)

\* Mutant: the upper duration bound forgotten.
IsSuitableNoMax(seg) == MinClip <= seg.duration

\* 10 <= seg['duration'] <= 60
IsSuitable(seg) == MinClip <= seg.duration /\ seg.duration <= MaxClip

\* Mutant: of the suitable entries with one span only the first is kept.
SuitableDedup(segments) ==
  LET ok == {i \in 1..Len(segments) :
               /\ MinClip <= segments[i].duration
               /\ segments[i].duration <= MaxClip
               /\ ~\E j \in 1..(i - 1) :
                     /\ segments[j].start_time = segments[i].start_time
                     /\ segments[j].end_time = segments[i].end_time}
      kth(k) == CHOOSE i \in ok : Cardinality({j \in ok : j <= i}) = k
  IN [k \in 1..Cardinality(ok) |-> segments[kth(k)]]

suitable_segments(segments) == SelectSeq(segments, IsSuitable)

\* suitable_segments[:10]
Truncate(seq) == SubSeq(seq, 1, Min(Len(seq), TopN))

\* ------------------------------------------------- inputs of one analysis
\* What librosa.load can decode: a quiet waveform covering every
\* transcript, a short loud one, and one without samples.
Waveforms ==
  { Wave(300 * 22050, 22050, Frac(2, 100), 1000, Frac(5, 100)),
    Wave(20 * 22050, 22050, Frac(1, 10), 6000, Frac(2, 10)),
    Wave(0, 22050, 0, 0, 0) }

NoAudio == Wave(0, 0, 0, 0, 0)

\* What the sentiment collaborator can answer.
Polarities == {0, -(Unit \div 2)}

\* The caps a caller may ask for (10 being the spec's default).
CapChoices == {2, TopN}

\* The target durations _combine_segments is called with directly.
Targets == {0, 20, TargetDuration}

\* Which collaborators scoring the candidates calls.
ScoringCalls(candidates, audio) ==
  (IF \E i \in 1..Len(candidates) : Strip(candidates[i].text) # <<>>
   THEN {"TextBlob"} ELSE {})
  \cup
  (IF \E i \in 1..Len(candidates) :
        SliceLen(audio.n, ToSample(candidates[i].start, audio.sr),
                 ToSample(candidates[i].end, audio.sr)) > 0
   THEN {"librosa.feature"} ELSE {})

\* ------------------------------------------------------ process_pipeline
\* Mutant: the extracted audio is written beside the clips.
AudioPathInOutputs ==
  [dir |-> "outputs", name |-> "audio", start_time |-> 0, end_time |-> 0]

\* <project_root>/temp/audio_<podcast>.wav
AudioPath ==
  [dir |-> "temp", name |-> "audio", start_time |-> 0, end_time |-> 0]

\* <project_root>/outputs/combined_clip_<start_time>_<end_time>.mp4
CombinedPath(start_time, end_time) ==
  [dir |-> "outputs", name |-> "combined_clip", start_time |-> start_time,
   end_time |-> end_time]

\* <project_root>/outputs/final_clip_<start_time>_<end_time>.mp4
FinalPath(start_time, end_time) ==
  [dir |-> "outputs", name |-> "final_clip", start_time |-> start_time,
   end_time |-> end_time]

\* engagement_segments[:num_clips]
HeadSlice(engagement_segments, num_clips) ==
  SubSeq(engagement_segments, 1, SliceIndex(num_clips, Len(engagement_segments)))

\* The loop's state before the first clip: the files on disk, the clips
\* generated and the calls made to the two video collaborators.
RenderInit(files) ==
  [files |-> files, generated_clips |-> <<>>, video_calls |-> <<>>]

\* One iteration of the loop: combine_videos writes the combined clip;
\* add_subtitles writes the final clip, or, when it fails inside, returns
\* the combined clip's path; the path returned is appended; the combined
\* clip is removed.
RenderStep(acc, segment, subtitles_ok) ==
  LET combined_path == CombinedPath(segment.start_time, segment.end_time)
      final_path ==
        IF subtitles_ok
        THEN FinalPath(segment.start_time, segment.end_time)
        ELSE combined_path
      written == acc.files \cup {combined_path, final_path}
  IN [files |-> written \ {combined_path},
      generated_clips |-> Append(acc.generated_clips, final_path),
      video_calls |-> acc.video_calls \o <<"combine_videos", "add_subtitles">>]

RECURSIVE RenderLoop(_, _, _, _)
RenderLoop(acc, i, clips, subtitles_ok) ==
  IF i > Len(clips) THEN acc
  ELSE RenderLoop(RenderStep(acc, clips[i], subtitles_ok), i + 1, clips,
                  subtitles_ok)

\* The kinds of segment the transcriber yields to the pipeline: as above,
\* one too long for a clip, and malformed ones (end = start, end < start).
PipeKinds ==
  { [dur |-> 12, text |-> <<" ", "W", "o", "w", "!">>],
    [dur |-> 45, text |-> <<"a", " ", "b", " ", "c", " ", "d", " ", "e">>],
    [dur |-> 70, text |-> <<"l", "o", "l">>],
    [dur |-> 0, text |-> <<"E", "h", "?">>],
    [dur |-> -3, text |-> <<"x">>] }

\* The numbers of clips a caller asks for.
NumClipsChoices == {-1, 0, 1, 5}

\* ------------------------------------------------------ sanitize_filename
\* str.replace(old, new) for one-character old and new
ReplaceChar(t, old, new) ==
  [i \in 1..Len(t) |-> IF t[i] = old THEN new ELSE t[i]]

\* re.sub(r'[...]', '', t): the characters of the class removed
RemoveChars(t, class) ==
  LET kept(c) == c \notin class
  IN SelectSeq(t, kept)

\* The class [\\/:*?"<>|\n\r\t]
UnsafeChars ==
  {"\\", "/", ":", "*", "?", "\"", "<", ">", "|", "\n", "\r", "\t"}

\* The characters \x20 to \x7E (the grave accent written by its code point)
PrintableAscii ==
  {
    " ", "!", "\"", "#", "$", "%", "&", "'", "(", ")", "*", "+",
    ",", "-", ".", "/", "0", "1", "2", "3", "4", "5", "6", "7",
    "8", "9", ":", ";", "<", "=", ">", "?", "@", "A", "B", "C",
    "D", "E", "F", "G", "H", "I", "J", "K", "L", "M", "N", "O",
    "P", "Q", "R", "S", "T", "U", "V", "W", "X", "Y", "Z", "[",
    "\\", "]", "^", "_", "U+0060", "a", "b", "c", "d", "e", "f", "g",
    "h", "i", "j", "k", "l", "m", "n", "o", "p", "q", "r", "s",
    "t", "u", "v", "w", "x", "y", "z", "{", "|", "}", "~" }

\* The class [^\x20-\x7E] removed
KeepPrintableAscii(t) ==
  LET kept(c) == c \in PrintableAscii
  IN SelectSeq(t, kept)

\* The curly quotes and the dashes are single characters written by their
\* code points: U+201C and U+201D (double), U+2018 and U+2019 (single),
\* U+2014 (em dash), U+2013 (en dash).
sanitize_filename(filename) ==
  LET underscored == ReplaceChar(filename, " ", "_")
      removed == RemoveChars(underscored, UnsafeChars)
      doubles == ReplaceChar(ReplaceChar(removed, "U+201C", "\""),
                             "U+201D", "\"")
      singles == ReplaceChar(ReplaceChar(doubles, "U+2018", "'"),
                             "U+2019", "'")
      dashes == ReplaceChar(ReplaceChar(singles, "U+2014", "-"),
                            "U+2013", "-")
      printable == KeepPrintableAscii(dashes)
  IN SubSeq(printable, 1, SliceIndex(MaxFilename, Len(printable)))

\* The characters the names to sanitize are made of; U+00E9 is a letter
\* outside ASCII.
NameAlphabet ==
  {"a", " ", "/", "?", "\n", "U+201C", "U+2019", "U+2014", "U+00E9"}

ShortNames == UNION {[1..k -> NameAlphabet] : k \in 0..MaxNameLen}

RECURSIVE Repeated(_, _)
Repeated(t, r) == IF r = 0 THEN <<>> ELSE t \o Repeated(t, r - 1)

\* The strings sanitize_filename is called with: short ones, and long ones
\* made of a short one over and over.
Filenames == {Repeated(t, r) : t \in ShortNames, r \in {1, LongRepeat}}

\* --------------------------------------------------------- get_user_input
\* sub in text
HasSubstring(text, sub) ==
  \E o \in 0..(Len(text) - Len(sub)) : SubSeq(text, o + 1, o + Len(sub)) = sub

\* "youtube.com" in url or "youtu.be" in url
LooksLikeYouTube(url) ==
  \/ HasSubstring(url, <<"y", "o", "u", "t", "u", "b", "e", ".", "c", "o", "m">>)
  \/ HasSubstring(url, <<"y", "o", "u", "t", "u", ".", "b", "e">>)

Digits == <<"0", "1", "2", "3", "4", "5", "6", "7", "8", "9">>

IsDigit(c) == \E d \in 1..Len(Digits) : Digits[d] = c

DigitValue(c) == (CHOOSE d \in 1..Len(Digits) : Digits[d] = c) - 1

\* The digits of t read as a decimal number.
RECURSIVE DecimalValue(_)
DecimalValue(t) ==
  IF t = <<>> THEN 0
  ELSE 10 * DecimalValue(SubSeq(t, 1, Len(t) - 1)) + DigitValue(t[Len(t)])

\* The part of t behind an optional sign.
Unsigned(t) ==
  IF t # <<>> /\ t[1] \in {"+", "-"} THEN SubSeq(t, 2, Len(t)) ELSE t

\* int(t) does not raise ValueError: an optional sign, then digits.
IsIntLiteral(t) ==
  /\ Unsigned(t) # <<>>
  /\ \A i \in 1..Len(Unsigned(t)) : IsDigit(Unsigned(t)[i])

\* int(t)
ParseInt(t) ==
  IF t[1] = "-" THEN -DecimalValue(Unsigned(t)) ELSE DecimalValue(Unsigned(t))

\* What the local num_clips holds: nothing yet, the line typed, or an int.
NoValue == [kind |-> "unset"]

StrValue(t) == [kind |-> "str", text |-> t]

IntValue(n) == [kind |-> "int", value |-> n]

\* The lines typed at a URL prompt.
UrlLines ==
  { <<>>,
    <<"a", "b", "c">>,
    <<" ", "y", "o", "u", "t", "u", ".", "b", "e", "/", "a", " ">>,
    <<"y", "o", "u", "t", "u", ".", "b", "e">>,
    <<"y", "o", "u", "t", "u", "b", "e", ".", "c", "o", "m">> }

\* The lines typed at the clip-count prompt.
ClipLines ==
  { <<>>, <<" ">>, <<"x">>, <<"0">>, <<"3">>, <<" ", "7", " ">>, <<"1", "0">>,
    <<"1", "1">>, <<"-", "2">> }

\* ---------------------------------------------------- run_pipeline.main
\* The options of the parser that name a source, and --interactive; each
\* source option is given with a non-empty value.
SourceFlags ==
  {"--podcast-url", "--podcast", "--gameplay-url", "--gameplay",
   "--podcast-youtube", "--gameplay-youtube"}

Flags == SourceFlags \cup {"--interactive"}

\* input_group: the four options added to the mutually exclusive group
input_group == {"--podcast-url", "--podcast", "--gameplay-url", "--gameplay"}

\* parser.parse_args() returns: at most one option of the group is given,
\* and, the group being required, at least one.
ParseArgsReturns(given) ==
  /\ Cardinality(given \cap input_group) <= 1
  /\ given \cap input_group # {}

\* args.podcast_url or args.podcast_youtube or args.podcast
podcast_source(given) ==
  given \cap {"--podcast-url", "--podcast-youtube", "--podcast"} # {}

\* args.gameplay_url or args.gameplay_youtube or args.gameplay
gameplay_source(given) ==
  given \cap {"--gameplay-url", "--gameplay-youtube", "--gameplay"} # {}

\* if args.podcast_url or args.podcast_youtube
PodcastIsUrl(given) == given \cap {"--podcast-url", "--podcast-youtube"} # {}

\* if args.gameplay_url or args.gameplay_youtube
GameplayIsUrl(given) == given \cap {"--gameplay-url", "--gameplay-youtube"} # {}

NoPaths == [podcast |-> "none", gameplay |-> "none"]

\* How main() ends, and the two paths it hands to process_pipeline, for the
\* options given, the files named existing or not, and the downloads
\* succeeding or not.
MainResult(given, exists, download_ok) ==
  IF ~ParseArgsReturns(given)
  THEN [outcome |-> "usage_error", paths |-> NoPaths]
  ELSE IF "--interactive" \in given
  THEN IF download_ok
       THEN [outcome |-> "process_pipeline",
             paths |-> [podcast |-> "download", gameplay |-> "download"]]
       ELSE [outcome |-> "raised", paths |-> NoPaths]
  ELSE IF ~podcast_source(given) \/ ~gameplay_source(given)
  THEN [outcome |-> "missing_source", paths |-> NoPaths]
  ELSE IF PodcastIsUrl(given) /\ ~download_ok
  THEN [outcome |-> "download_failed", paths |-> NoPaths]
  ELSE IF ~PodcastIsUrl(given) /\ ~exists
  THEN [outcome |-> "not_found", paths |-> NoPaths]
  ELSE IF GameplayIsUrl(given) /\ ~download_ok
  THEN [outcome |-> "download_failed", paths |-> NoPaths]
  ELSE IF ~GameplayIsUrl(given) /\ ~exists
  THEN [outcome |-> "not_found", paths |-> NoPaths]
  ELSE [outcome |-> "process_pipeline",
        paths |-> [podcast |-> IF PodcastIsUrl(given) THEN "download" ELSE "file",
                   gameplay |-> IF GameplayIsUrl(given) THEN "download" ELSE "file"]]

\* ------------------------------------------ inputs of one scorer call
\* The texts a scorer is called with directly.
ScorerTexts ==
  { <<>>,
    <<" ", " ">>,
    <<"h", "a", "h", "a", "h", "a">>,
    <<"H", "A", "H", "A", "H", "A", "H", "A">>,
    <<"l", "o", "l">>,
    <<"U+1F602", "U+1F604", "U+1F606">>,
    <<"a", " ", "b", " ", "c", " ", "d", " ", "e">>,
    <<"l", "o", "l", " ", "l", "o", "l", " ", "?", " ", "?", " ", "!", "!">> }

\* What the sentiment collaborator can answer; it finds no sentiment in a
\* text without a word.
ScorerPolarities(text) ==
  IF WordCount(text) = 0 THEN {0} ELSE {0, -(Unit \div 2), Unit}

\* The span ends a scorer is called with directly, in seconds.
ScorerTimes == {-10, -5, 0, 10, 30}

\* ENGAGEMENT_CONFIG's text_weight and audio_weight, in tenths: as shipped,
\* and as an operator may set them.
WeightChoices ==
  { [text_weight |-> 4, audio_weight |-> 6],
    [text_weight |-> 7, audio_weight |-> 3] }

ScorerArgs ==
  { a \in [text : ScorerTexts, polarity : {0, -(Unit \div 2), Unit},
           audio : Waveforms, start_time : ScorerTimes, end_time : ScorerTimes,
           config : WeightChoices] :
      a.polarity \in ScorerPolarities(a.text) }

NoArgs ==
  [text |-> <<>>, polarity |-> 0, audio |-> NoAudio, start_time |-> 0,
   end_time |-> 0, config |-> [text_weight |-> 4, audio_weight |-> 6]]

NoReturn == [fn |-> "none"]

\* ----------------------------------------------------------------- state
VARIABLES
  pc,                 \* "transcribing", "analyzed" or "merged"; for a scorer
                      \* called on its own "scoring", then "scored"
  args,               \* the arguments of a scorer called on its own
  retval,             \* what that call computed
  num_clips,          \* process_pipeline's num_clips
  files,              \* the files on disk
  generated_clips,    \* the list process_pipeline builds
  video_calls,        \* the calls to combine_videos and add_subtitles
  avg_duration,       \* the divisions made for avg_duration
  filename,           \* the string sanitize_filename is called with
  sanitized,          \* what it returned
  last_line,          \* the line get_user_input read last
  asked,              \* how often it has shown the clip-count prompt
  chosen,             \* its local num_clips
  urls,               \* the URLs it has accepted
  argv,               \* the options run_pipeline is started with
  env,                \* whether the files named exist, the downloads succeed
  cli_outcome,        \* how main() ended
  paths,              \* the paths it handed to process_pipeline
  has_key,            \* transcript_data has a 'segments' key
  transcript,         \* transcript_data['segments']
  max_results,        \* the cap the caller asked for
  y,                  \* the decoded waveform (with its sample rate)
  polarity,           \* the sentiment collaborator's answer
  calls,              \* the collaborators called so far
  outcome,            \* "pending", "returned" or "raised"
  target,             \* target_duration of the last _combine_segments call
  closed,             \* where that call closed its running group
  combined_segments,  \* what that call returned
  all_candidates,     \* the candidate pool
  scored,             \* `segments` as appended to, before the sort
  segments,           \* `segments` after the sort
  result              \* the list analyze_engagement returned

vars == <<pc, filename, sanitized, last_line, asked, chosen, urls, argv, env,
          cli_outcome, paths, args, retval, num_clips, files, generated_clips, video_calls,
          avg_duration, has_key, transcript, max_results, y, polarity, calls, outcome,
          target, closed, combined_segments, all_candidates, scored, segments,
          result>>

scorer == <<args, retval>>

pipeline == <<num_clips, files, generated_clips, video_calls>>

naming == <<filename, sanitized>>

prompting == <<last_line, asked, chosen, urls>>

cli == <<argv, env, cli_outcome, paths>>

frontend == <<naming, prompting, cli>>

NamingIdle ==
  /\ filename = <<>>
  /\ sanitized = <<>>

PromptingIdle ==
  /\ last_line = <<>>
  /\ asked = 0
  /\ chosen = NoValue
  /\ urls = <<>>

CliIdle ==
  /\ argv = {}
  /\ env = [exists |-> TRUE, download_ok |-> TRUE]
  /\ cli_outcome = "pending"
  /\ paths = NoPaths

\* Nothing has happened in front of the pipeline.
FrontendIdle == NamingIdle /\ PromptingIdle /\ CliIdle

analysis == <<avg_duration, max_results, y, polarity, calls, outcome, target, closed,
              combined_segments, all_candidates, scored, segments, result>>

whisper_segments == GetSegments(has_key, transcript)

Init ==
  /\ pc = "transcribing"
  /\ args = NoArgs
  /\ retval = NoReturn
  /\ num_clips = 0
  /\ files = {}
  /\ generated_clips = <<>>
  /\ video_calls = <<>>
  /\ avg_duration = <<>>
  /\ FrontendIdle
  /\ has_key \in BOOLEAN
  /\ transcript = <<>>
  /\ max_results = TopN
  /\ y = NoAudio
  /\ polarity = 0
  /\ calls = {}
  /\ outcome = "pending"
  /\ target = TargetDuration
  /\ closed = <<>>
  /\ combined_segments = <<>>
  /\ all_candidates = <<>>
  /\ scored = <<>>
  /\ segments = <<>>
  /\ result = <<>>

\* The transcriber yields the next segment, starting where the last ended.
Transcribe(k) ==
  /\ pc = "transcribing"
  /\ has_key
  /\ Len(transcript) < MaxLong
  /\ k \in KindsAt(Len(transcript))
  /\ transcript' = Append(transcript,
                          Seg(LastEnd(transcript), LastEnd(transcript) + k.dur,
                              k.text))
  /\ UNCHANGED <<pc, has_key>>
  /\ UNCHANGED analysis
  /\ UNCHANGED scorer
  /\ UNCHANGED pipeline
  /\ UNCHANGED frontend

\* The transcriber yields its last segment once more (same start, end, text).
Repeat ==
  /\ pc = "transcribing"
  /\ has_key
  /\ transcript # <<>>
  /\ Len(transcript) < MaxSegs
  /\ transcript' = Append(transcript, transcript[Len(transcript)])
  /\ UNCHANGED <<pc, has_key>>
  /\ UNCHANGED analysis
  /\ UNCHANGED scorer
  /\ UNCHANGED pipeline
  /\ UNCHANGED frontend

\* analyze_engagement when librosa.load raises: the exception leaves the
\* method before the transcript is looked at.
AnalyzeEngagementRaises(cap) ==
  /\ pc = "transcribing"
  /\ pc' = "analyzed"
  /\ max_results' = cap
  /\ calls' = {"librosa.load"}
  /\ outcome' = "raised"
  /\ UNCHANGED <<has_key, transcript, y, polarity, target, closed,
                 combined_segments, all_candidates, scored, segments, result,
                 avg_duration>>
  /\ UNCHANGED scorer
  /\ UNCHANGED pipeline
  /\ UNCHANGED frontend

\* The body of analyze_engagement, the audio decoded to w and the sentiment
\* collaborator answering p.
Analyze(w, p) ==
  /\ y' = w
  /\ polarity' = p
  /\ outcome' = "returned"
  /\ IF whisper_segments = <<>>
     THEN /\ calls' = {"librosa.load"}
          /\ result' = <<>>
          /\ UNCHANGED <<target, closed, combined_segments, all_candidates,
                         scored, segments, avg_duration>>
     ELSE /\ avg_duration' = <<AvgDuration(whisper_segments)>>
          /\ target' = TargetDuration
          /\ closed' = CombineClosed(whisper_segments, TargetDuration)
          /\ combined_segments' =
               _combine_segments(whisper_segments, TargetDuration)
          /\ all_candidates' =
               AllCandidates(combined_segments', long_segments(whisper_segments))
          /\ scored' = ScoreAll(all_candidates', w, p)
          /\ segments' = SortByScore(scored')
          /\ calls' = {"librosa.load"} \cup ScoringCalls(all_candidates', w)
          /\ result' = Truncate(suitable_segments(segments'))
  /\ transcript' = SegmentsAfter(transcript)
  /\ UNCHANGED has_key

\* analyze_engagement called on its own; cap is what the caller would like
\* at most.
AnalyzeEngagement(w, p, cap) ==
  /\ pc = "transcribing"
  /\ pc' = "analyzed"
  /\ max_results' = cap
  /\ Analyze(w, p)
  /\ UNCHANGED scorer
  /\ UNCHANGED pipeline
  /\ UNCHANGED frontend

\* _combine_segments called on its own with target duration t.
CombineSegments(t) ==
  /\ pc = "transcribing"
  /\ has_key
  /\ pc' = "merged"
  /\ target' = t
  /\ closed' = CombineClosed(transcript, t)
  /\ combined_segments' = _combine_segments(transcript, t)
  /\ outcome' = "returned"
  /\ transcript' = SegmentsAfter(transcript)
  /\ UNCHANGED <<has_key, max_results, y, polarity, calls,
                 all_candidates, scored, segments, result, avg_duration>>
  /\ UNCHANGED scorer
  /\ UNCHANGED pipeline
  /\ UNCHANGED frontend

Next ==
  \/ \E k \in SegmentKinds : Transcribe(k)
  \/ Repeat
  \/ \E cap \in CapChoices : AnalyzeEngagementRaises(cap)
  \/ \E w \in Waveforms, p \in Polarities, cap \in CapChoices :
       AnalyzeEngagement(w, p, cap)
  \/ \E t \in Targets : CombineSegments(t)

Spec == Init /\ [][Next]_vars

\* ------------------------------------------- the scorers called directly
\* A scorer is about to be called with arguments drawn from ScorerArgs.
ScoreInit ==
  /\ pc = "scoring"
  /\ args \in ScorerArgs
  /\ retval = NoReturn
  /\ num_clips = 0
  /\ files = {}
  /\ generated_clips = <<>>
  /\ video_calls = <<>>
  /\ avg_duration = <<>>
  /\ FrontendIdle
  /\ has_key = TRUE
  /\ transcript = <<>>
  /\ max_results = TopN
  /\ y = NoAudio
  /\ polarity = 0
  /\ calls = {}
  /\ outcome = "pending"
  /\ target = TargetDuration
  /\ closed = <<>>
  /\ combined_segments = <<>>
  /\ all_candidates = <<>>
  /\ scored = <<>>
  /\ segments = <<>>
  /\ result = <<>>

\* _analyze_text_engagement(args.text), the sentiment collaborator answering
\* args.polarity.
AnalyzeTextEngagement ==
  /\ pc = "scoring"
  /\ pc' = "scored"
  /\ retval' =
       [fn |-> "text",
        parts |-> IF args.text = <<>> THEN NoParts
                  ELSE TextParts(args.text, args.polarity),
        score |-> _analyze_text_engagement(args.text, args.polarity)]
  /\ UNCHANGED <<args, has_key, transcript>>
  /\ UNCHANGED analysis
  /\ UNCHANGED pipeline
  /\ UNCHANGED frontend

\* _analyze_audio_engagement(args.audio, sr, args.start_time, args.end_time)
AnalyzeAudioEngagement ==
  /\ pc = "scoring"
  /\ pc' = "scored"
  /\ retval' =
       [fn |-> "audio",
        first |-> SliceIndex(ToSample(args.start_time, args.audio.sr),
                             args.audio.n),
        stop |-> SliceIndex(ToSample(args.end_time, args.audio.sr),
                            args.audio.n),
        score |-> _analyze_audio_engagement(args.audio, args.audio.sr,
                                            args.start_time, args.end_time)]
  /\ UNCHANGED <<args, has_key, transcript>>
  /\ UNCHANGED analysis
  /\ UNCHANGED pipeline
  /\ UNCHANGED frontend

\* _calculate_engagement_score(args.text, args.audio, sr, args.start_time,
\* args.end_time) with ENGAGEMENT_CONFIG holding args.config.
CalculateEngagementScore ==
  /\ pc = "scoring"
  /\ pc' = "scored"
  /\ retval' =
       [fn |-> "fused",
        text_score |-> _analyze_text_engagement(args.text, args.polarity),
        audio_score |-> _analyze_audio_engagement(args.audio, args.audio.sr,
                                                  args.start_time,
                                                  args.end_time),
        score |-> _calculate_engagement_score(args.text, args.audio,
                                              args.audio.sr, args.start_time,
                                              args.end_time, args.polarity)]
  /\ UNCHANGED <<args, has_key, transcript>>
  /\ UNCHANGED analysis
  /\ UNCHANGED pipeline
  /\ UNCHANGED frontend

ScoreNext ==
  \/ AnalyzeTextEngagement
  \/ AnalyzeAudioEngagement
  \/ CalculateEngagementScore

ScoreSpec == ScoreInit /\ [][ScoreNext]_vars

\* ------------------------------------------------------- the pipeline
\* The transcriber yields the pipeline its next segment, starting where the
\* last one ended.
PipeTranscribe(k) ==
  /\ pc = "transcribing"
  /\ Len(transcript) < MaxPipeSegs
  /\ transcript' = Append(transcript,
                          Seg(LastEnd(transcript), LastEnd(transcript) + k.dur,
                              k.text))
  /\ UNCHANGED <<pc, has_key>>
  /\ UNCHANGED analysis
  /\ UNCHANGED scorer
  /\ UNCHANGED pipeline
  /\ UNCHANGED frontend

\* process_pipeline asked for n clips, the transcriber having answered
\* transcript, the audio decoding to w, the sentiment collaborator answering
\* p, and add_subtitles succeeding or failing inside as subtitles_ok says.
ProcessPipeline(w, p, n, subtitles_ok) ==
  /\ pc = "transcribing"
  /\ pc' = "finished"
  /\ num_clips' = n
  /\ Analyze(w, p)
  /\ IF result' = <<>>
     THEN /\ files' = {AudioPath}
          /\ generated_clips' = <<>>
          /\ video_calls' = <<>>
     ELSE LET done == RenderLoop(RenderInit({AudioPath}), 1,
                                 HeadSlice(result', n), subtitles_ok)
          IN /\ files' = done.files
             /\ generated_clips' = done.generated_clips
             /\ video_calls' = done.video_calls
  /\ UNCHANGED max_results
  /\ UNCHANGED scorer
  /\ UNCHANGED frontend

PipeInit == Init /\ has_key

PipeNext ==
  \/ \E k \in PipeKinds : PipeTranscribe(k)
  \/ \E w \in Waveforms, p \in Polarities, n \in NumClipsChoices,
        subtitles_ok \in BOOLEAN :
       ProcessPipeline(w, p, n, subtitles_ok)

PipeSpec == PipeInit /\ [][PipeNext]_vars

\* ---------------------------------------- in front of the pipeline
\* The pipeline's own variables while only a front-end function runs.
CoreIdle ==
  /\ args = NoArgs
  /\ retval = NoReturn
  /\ num_clips = 0
  /\ files = {}
  /\ generated_clips = <<>>
  /\ video_calls = <<>>
  /\ avg_duration = <<>>
  /\ has_key = TRUE
  /\ transcript = <<>>
  /\ max_results = TopN
  /\ y = NoAudio
  /\ polarity = 0
  /\ calls = {}
  /\ outcome = "pending"
  /\ target = TargetDuration
  /\ closed = <<>>
  /\ combined_segments = <<>>
  /\ all_candidates = <<>>
  /\ scored = <<>>
  /\ segments = <<>>
  /\ result = <<>>

core == <<has_key, transcript, analysis, scorer, pipeline>>

\* sanitize_filename is about to be called with a string of Filenames.
NameInit ==
  /\ pc = "naming"
  /\ filename \in Filenames
  /\ sanitized = <<>>
  /\ PromptingIdle
  /\ CliIdle
  /\ CoreIdle

\* sanitize_filename(filename)
SanitizeFilename ==
  /\ pc = "naming"
  /\ pc' = "named"
  /\ sanitized' = sanitize_filename(filename)
  /\ UNCHANGED filename
  /\ UNCHANGED prompting
  /\ UNCHANGED cli
  /\ UNCHANGED core

NameNext == SanitizeFilename

NameSpec == NameInit /\ [][NameNext]_vars

\* get_user_input is about to show its first prompt.
PromptInit ==
  /\ pc = "ask_podcast"
  /\ PromptingIdle
  /\ NamingIdle
  /\ CliIdle
  /\ CoreIdle

\* One turn of the first loop: the podcast URL is read.
AskPodcast(line) ==
  /\ pc = "ask_podcast"
  /\ last_line' = line
  /\ IF Strip(line) # <<>> /\ LooksLikeYouTube(Strip(line))
     THEN pc' = "ask_gameplay" /\ urls' = <<Strip(line)>>
     ELSE UNCHANGED <<pc, urls>>
  /\ UNCHANGED <<asked, chosen>>
  /\ UNCHANGED naming
  /\ UNCHANGED cli
  /\ UNCHANGED core

\* One turn of the second loop: the gameplay URL is read.
AskGameplay(line) ==
  /\ pc = "ask_gameplay"
  /\ last_line' = line
  /\ IF Strip(line) # <<>> /\ LooksLikeYouTube(Strip(line))
     THEN pc' = "ask_clips" /\ urls' = Append(urls, Strip(line))
     ELSE UNCHANGED <<pc, urls>>
  /\ UNCHANGED <<asked, chosen>>
  /\ UNCHANGED naming
  /\ UNCHANGED cli
  /\ UNCHANGED core

\* One turn of the third loop: the clip count is read; the function returns
\* (podcast_url, gameplay_url, num_clips) when the loop is left.
AskClips(line) ==
  /\ pc = "ask_clips"
  /\ asked < MaxPrompts
  /\ asked' = asked + 1
  /\ last_line' = line
  /\ IF Strip(line) = <<>>
     THEN chosen' = IntValue(3) /\ UNCHANGED pc
     ELSE IF ~IsIntLiteral(Strip(line))
          THEN chosen' = StrValue(Strip(line)) /\ UNCHANGED pc
          ELSE /\ chosen' = IntValue(ParseInt(Strip(line)))
               /\ pc' = IF 1 <= ParseInt(Strip(line)) /\ ParseInt(Strip(line)) <= 10
                        THEN "returned" ELSE pc
  /\ UNCHANGED urls
  /\ UNCHANGED naming
  /\ UNCHANGED cli
  /\ UNCHANGED core

PromptNext ==
  \/ \E line \in UrlLines : AskPodcast(line)
  \/ \E line \in UrlLines : AskGameplay(line)
  \/ \E line \in ClipLines : AskClips(line)

PromptSpec == PromptInit /\ [][PromptNext]_vars

\* run_pipeline is started with some of its options.
CliInit ==
  /\ pc = "cli"
  /\ argv \in SUBSET Flags
  /\ env \in [exists : BOOLEAN, download_ok : BOOLEAN]
  /\ cli_outcome = "pending"
  /\ paths = NoPaths
  /\ NamingIdle
  /\ PromptingIdle
  /\ CoreIdle

\* main(), up to its call of process_pipeline or its exit.
Main ==
  /\ pc = "cli"
  /\ pc' = "exited"
  /\ cli_outcome' = MainResult(argv, env.exists, env.download_ok).outcome
  /\ paths' = MainResult(argv, env.exists, env.download_ok).paths
  /\ UNCHANGED <<argv, env>>
  /\ UNCHANGED naming
  /\ UNCHANGED prompting
  /\ UNCHANGED core

CliNext == Main

CliSpec == CliInit /\ [][CliNext]_vars

\* ================================================================ claims
Returned == pc = "analyzed" /\ outcome = "returned"

Span(c) == <<c.start_time, c.end_time>>

\* C1: every entry of the list analyze_engagement returns has a duration,
\* recomputed as end_time - start_time, of at least 10 and at most 60.
C1_DurationBounds ==
  Returned =>
    \A i \in 1..Len(result) :
      /\ 10 <= result[i].end_time - result[i].start_time
      /\ result[i].end_time - result[i].start_time <= 60

\* C1 witness: the filter acted - a candidate longer than 60 s was scored and
\* is not returned, while shorter ones are.
C1_Witness ==
  /\ Returned
  /\ result # <<>>
  /\ \E i \in 1..Len(segments) : segments[i].duration > 60

\* C2: the returned list is sorted non-increasing by engagement_score.
C2_SortedByScore ==
  Returned =>
    \A i \in 1..(Len(result) - 1) :
      result[i].engagement_score >= result[i + 1].engagement_score

\* C2 witness: three returned entries with strictly falling scores, from a
\* pool whose own order was not by score.
C2_Witness ==
  /\ Returned
  /\ Len(result) >= 3
  /\ result[1].engagement_score > result[2].engagement_score
  /\ result[2].engagement_score > result[3].engagement_score
  /\ segments # scored

\* C3: the returned list is never longer than the cap the caller supplied.
C3_CapRespected == Returned => Len(result) <= max_results

\* The scored pool in pool order, filtered to the durations within 10..60.
FilteredPool ==
  LET keep(c) == 10 <= c.duration /\ c.duration <= 60
  IN SelectSeq(scored, keep)

\* Where entry j of a sequence lands when it is sorted descending by score
\* with ties kept in their original order.
StableRank(f, j) ==
  1 + Cardinality({k \in 1..Len(f) :
                     \/ f[k].engagement_score > f[j].engagement_score
                     \/ (k < j /\ f[k].engagement_score = f[j].engagement_score)})

\* C4: the result is what filtering the pool, then sorting it descending by
\* score with ties in pool order, then truncating to ten entries gives.
C4_StableTies ==
  Returned =>
    /\ Len(result) = Min(Len(FilteredPool), 10)
    /\ \A j \in 1..Len(FilteredPool) :
         StableRank(FilteredPool, j) <= 10 =>
           result[StableRank(FilteredPool, j)] = FilteredPool[j]

\* C4 witness: two returned neighbours with equal scores and different spans,
\* an unsuitable candidate scored above them, and a truncated tail.
C4_Witness ==
  /\ Returned
  /\ Len(FilteredPool) > Len(result)
  /\ \E i \in 1..(Len(result) - 1) :
       /\ result[i].engagement_score = result[i + 1].engagement_score
       /\ Span(result[i]) # Span(result[i + 1])
  /\ \E i \in 1..Len(segments) :
       /\ ~IsSuitable(segments[i])
       /\ segments[i].engagement_score > result[Len(result)].engagement_score

\* C5: with no segments in the transcript, analyze_engagement returns an
\* empty list, not an error, and calls no collaborator on the way.
C5_EmptyFailsFast ==
  (pc = "analyzed" /\ whisper_segments = <<>>) =>
    /\ outcome = "returned"
    /\ result = <<>>
    /\ calls = {}

\* The positions of the transcript segments lasting at least 10 s.
LongPositions ==
  {i \in 1..Len(transcript) : transcript[i].end - transcript[i].start >= 10}

\* C6: the pool is the output of _combine_segments with target 30 followed by
\* every segment lasting at least 10 s, in transcript order, nothing removed.
C6_PoolIsCombinedThenLong ==
  (Returned /\ whisper_segments # <<>>) =>
    /\ target = 30
    /\ Len(all_candidates) = Len(combined_segments) + Cardinality(LongPositions)
    /\ combined_segments = _combine_segments(transcript, 30)
    /\ \A i \in 1..Len(combined_segments) :
         all_candidates[i] = combined_segments[i]
    /\ Len(scored) = Len(all_candidates)
    /\ \A i \in 1..Len(scored) :
         /\ scored[i].start_time = all_candidates[i].start
         /\ scored[i].end_time = all_candidates[i].end
    /\ \A p \in LongPositions :
         all_candidates[Len(combined_segments)
                        + Cardinality({q \in LongPositions : q <= p})]
           = transcript[p]

\* C6 witness: a segment emitted alone as a combined group is in the pool a
\* second time as an atomic segment.
C6_Witness ==
  /\ Returned
  /\ \E i \in 1..Len(combined_segments) :
       \E p \in LongPositions :
         /\ combined_segments[i].start = transcript[p].start
         /\ combined_segments[i].end = transcript[p].end
         /\ combined_segments[i].text = Strip(transcript[p].text)
         /\ Len(all_candidates) > Len(combined_segments)

\* C7 as stated: no two returned entries have the same span.
C7_NoDuplicateSpans ==
  Returned =>
    \A i, j \in 1..Len(result) : i # j => Span(result[i]) # Span(result[j])

\* The suitable candidates the transcript gives rise to: the emitted groups
\* and the atomic segments whose duration is within 10..60.
SuitableCount ==
  Cardinality({i \in 1..Len(combined_segments) :
                 /\ combined_segments[i].end - combined_segments[i].start >= 10
                 /\ combined_segments[i].end - combined_segments[i].start <= 60})
  + Cardinality({p \in LongPositions :
                   transcript[p].end - transcript[p].start <= 60})

\* C7 (amended): nothing is removed for sharing a span - the result has as
\* many entries as there are suitable candidates, up to ten.
C7_NothingDeduplicated ==
  (Returned /\ whisper_segments # <<>>) =>
    Len(result) = Min(SuitableCount, 10)

\* C7 witness: a transcript of one segment of 30..60 s, returned twice.
C7_Witness ==
  /\ Returned
  /\ Len(transcript) = 1
  /\ Len(result) = 2
  /\ Span(result[1]) = Span(result[2])
  /\ result[1].duration >= 30

\* The transcript of the concrete scenario: 0-12 s, 12-20 s, 20-45 s.
IsScenario ==
  /\ Len(transcript) = 3
  /\ <<transcript[1].start, transcript[1].end>> = <<0, 12>>
  /\ <<transcript[2].start, transcript[2].end>> = <<12, 20>>
  /\ <<transcript[3].start, transcript[3].end>> = <<20, 45>>

\* C8 as stated: the scenario merges to one candidate 0-45 and the result
\* has exactly two entries.
C8_ScenarioTwoEntries ==
  (Returned /\ IsScenario) =>
    /\ Len(combined_segments) = 1
    /\ <<combined_segments[1].start, combined_segments[1].end>> = <<0, 45>>
    /\ Len(result) = 2

\* C8 (amended): the scenario merges to one candidate 0-45, and the result
\* has exactly three entries - 0-45 combined, and 0-12 and 20-45 atomic -
\* each with a duration within 10..60.
C8_ScenarioThreeEntries ==
  (Returned /\ IsScenario) =>
    /\ Len(combined_segments) = 1
    /\ <<combined_segments[1].start, combined_segments[1].end>> = <<0, 45>>
    /\ Len(result) = 3
    /\ {<<Span(result[i]), result[i].source>> : i \in 1..3}
         = { <<<<0, 45>>, "combined">>, <<<<0, 12>>, "unknown">>,
             <<<<20, 45>>, "unknown">> }
    /\ \A i \in 1..3 :
         /\ 10 <= result[i].end_time - result[i].start_time
         /\ result[i].end_time - result[i].start_time <= 60

\* C8 witness: the scenario analysed over the waveform that covers it.
C8_Witness ==
  /\ Returned
  /\ IsScenario
  /\ y.n > 45 * y.sr
  /\ result # <<>>

Monotone ==
  \A i \in 1..(Len(transcript) - 1) :
    /\ transcript[i].start <= transcript[i + 1].start
    /\ transcript[i].end <= transcript[i + 1].end

\* C9: _combine_segments never emits a candidate shorter than 10 s, whatever
\* the target duration, and an empty input gives an empty output.
C9_MergeFloor ==
  (outcome = "returned" /\ Monotone) =>
    /\ \A i \in 1..Len(combined_segments) :
         combined_segments[i].end - combined_segments[i].start >= 10
    /\ (pc = "merged" /\ transcript = <<>>) => combined_segments = <<>>

\* C9 witness: a direct call with a target other than 30 that closed more
\* groups than it emitted, so that a short group was dropped.
C9_Witness ==
  /\ pc = "merged"
  /\ target # 30
  /\ combined_segments # <<>>
  /\ Cardinality({i \in 1..Len(closed) : closed[i]}) > Len(combined_segments)

\* The start of the group that position i of the transcript belongs to: the
\* start of the segment after the last close before i.
GroupStart(i) ==
  LET before == {j \in 1..(i - 1) : closed[j]}
      first == IF before = {} THEN 1
               ELSE 1 + CHOOSE j \in before : \A k \in before : k <= j
  IN transcript[first].start

\* C10: the running group is closed at a segment exactly when the segment's
\* end is at least the target past the group's start, or the segment is at
\* the last position of the input.
C10_ClosesIffTargetOrLast ==
  (outcome = "returned" /\ Len(closed) = Len(transcript)) =>
    \A i \in 1..Len(closed) :
      closed[i] <=> \/ transcript[i].end - GroupStart(i) >= target
                    \/ i = Len(transcript)

\* The positions at which the last _combine_segments call closed a group.
ClosePositions == {i \in 1..Len(closed) : closed[i]}

\* The first position of the group closed at position j.
FirstOf(j) ==
  LET before == {k \in ClosePositions : k < j}
  IN IF before = {} THEN 1
     ELSE 1 + CHOOSE k \in before : \A m \in before : m <= k

\* A text without its leading and trailing whitespace.
Trimmed(t) ==
  LET ink == {i \in 1..Len(t) : t[i] \notin {" ", "\t", "\n"}}
  IN IF ink = {} THEN <<>>
     ELSE SubSeq(t, CHOOSE i \in ink : \A k \in ink : i <= k,
                    CHOOSE i \in ink : \A k \in ink : k <= i)

\* sub occurs in text as a contiguous run.
Contains(text, sub) ==
  \E o \in 0..(Len(text) - Len(sub)) : SubSeq(text, o + 1, o + Len(sub)) = sub

\* The trimmed texts of positions i..j, each behind one space.
RECURSIVE SpaceJoined(_, _)
SpaceJoined(i, j) ==
  IF i > j THEN <<>>
  ELSE <<" ">> \o Trimmed(transcript[i].text) \o SpaceJoined(i + 1, j)

\* Combined candidate k covers position i of the transcript.
Covers(k, i) ==
  /\ combined_segments[k].start <= transcript[i].start
  /\ transcript[i].end <= combined_segments[k].end
  /\ Contains(combined_segments[k].text, Trimmed(transcript[i].text))

Merged == outcome = "returned" /\ Len(closed) = Len(transcript)

\* C11 as stated: in an ordered transcript of at least 10 s in which a group
\* closes on the 30 s target, every segment's trimmed text is inside exactly
\* one emitted combined candidate - the trailing group's segments included.
C11_AllTextKept ==
  (/\ Merged
   /\ target = 30
   /\ Monotone
   /\ transcript # <<>>
   /\ transcript[Len(transcript)].end - transcript[1].start >= 10
   /\ \E j \in ClosePositions : transcript[j].end - transcript[FirstOf(j)].start >= 30)
  =>
    \A i \in 1..Len(transcript) :
      Cardinality({k \in 1..Len(combined_segments) : Covers(k, i)}) = 1

\* The closed groups that last at least 10 s.
KeptCloses ==
  {j \in ClosePositions : transcript[j].end - transcript[FirstOf(j)].start >= 10}

\* C11 (amended): every segment is in exactly one closed group; the groups of
\* at least 10 s are emitted, in order, each once, with the trimmed texts of
\* their segments space-joined in input order; a group closed below 10 s -
\* which a trailing group closed by the last-segment rule can be - is dropped
\* and none of its text is emitted.
C11_KeptGroupsComplete ==
  (Merged /\ Monotone) =>
    /\ Len(combined_segments) = Cardinality(KeptCloses)
    /\ \A j \in KeptCloses :
         LET c == combined_segments[Cardinality({m \in KeptCloses : m <= j})]
         IN /\ c.start = transcript[FirstOf(j)].start
            /\ c.end = transcript[j].end
            /\ c.text = Trimmed(SpaceJoined(FirstOf(j), j))
            /\ \A i \in FirstOf(j)..j : Contains(c.text, Trimmed(transcript[i].text))
    /\ \A i \in 1..Len(transcript) : \E j \in ClosePositions : j >= i

\* C11 witness: a group closed on the target and emitted with the texts of
\* several segments, followed by a trailing group that was dropped.
C11_Witness ==
  /\ Merged
  /\ target = 30
  /\ Len(transcript) >= 3
  /\ \E j \in KeptCloses :
       /\ FirstOf(j) < j
       /\ transcript[j].end - transcript[FirstOf(j)].start >= 30
       /\ \E i \in FirstOf(j)..j : transcript[i].text # Trimmed(transcript[i].text)
  /\ Len(transcript) \in ClosePositions \ KeptCloses

\* What the text scorer returns for scored candidate c.
TextScoreOf(c) == _analyze_text_engagement(c.text, polarity)

\* What the audio scorer returns for scored candidate c.
AudioScoreOf(c) == _analyze_audio_engagement(y, y.sr, c.start_time, c.end_time)

\* C12: every candidate's engagement score is 0.4 times its text score plus
\* 0.6 times its audio score, clamped to [0, 1] (stated in tenths).
C12_FusedScore ==
  Returned =>
    \A i \in 1..Len(scored) :
      LET raw10 == 4 * TextScoreOf(scored[i]) + 6 * AudioScoreOf(scored[i])
          clamped10 == IF raw10 < 0 THEN 0
                       ELSE IF raw10 > 10 * Unit THEN 10 * Unit ELSE raw10
      IN /\ 10 * scored[i].engagement_score = clamped10
         /\ 0 <= scored[i].engagement_score
         /\ scored[i].engagement_score <= Unit

\* C12 witness: a candidate with text score 0.5 and audio score 0.5, fused to
\* 0.5, beside a candidate with another score.
C12_Witness ==
  /\ Returned
  /\ \E i \in 1..Len(scored) :
       /\ 2 * TextScoreOf(scored[i]) = Unit
       /\ 2 * AudioScoreOf(scored[i]) = Unit
       /\ 2 * scored[i].engagement_score = Unit
  /\ \E i \in 1..Len(scored) :
       /\ TextScoreOf(scored[i]) # AudioScoreOf(scored[i])
       /\ scored[i].engagement_score > 0

\* ------------------------------------------------- the scorers' claims
ScoredBy(fn) == pc = "scored" /\ retval.fn = fn

\* C13: the fused score uses the configured weights: it is text_weight times
\* the text score plus audio_weight times the audio score, capped at 1
\* (stated in tenths), whatever ENGAGEMENT_CONFIG holds.
C13_ConfiguredWeights ==
  ScoredBy("fused") =>
    10 * retval.score =
      Min(args.config.text_weight * retval.text_score
          + args.config.audio_weight * retval.audio_score, 10 * Unit)

\* C14: the text score lies in [0, 1] for every text and polarity, and is
\* exactly 0 for an empty or whitespace-only text.
C14_TextScoreRange ==
  ScoredBy("text") =>
    /\ 0 <= retval.score
    /\ retval.score <= Unit
    /\ (Trimmed(args.text) = <<>> => retval.score = 0)

\* C14 witness: the five capped contributions sum to 1.1 and the score
\* returned is 1.
C14_Witness ==
  /\ ScoredBy("text")
  /\ retval.parts =
       [sentiment |-> 30000, questions |-> 30000, exclamations |-> 20000,
        laughter |-> 20000, bonus |-> 10000]
  /\ retval.score = Unit

\* Where pat occurs in t (first character's position), overlapping or not.
Occurrences(t, pat) ==
  {o \in 1..(Len(t) - Len(pat) + 1) : SubSeq(t, o, o + Len(pat) - 1) = pat}

\* The most occurrences of pat in t no two of which share a character.
DisjointOccurrences(t, pat) ==
  LET fits(S) == \A a \in S, b \in S : a < b => b - a >= Len(pat)
      sizes == {Cardinality(S) : S \in {X \in SUBSET Occurrences(t, pat) : fits(X)}}
  IN CHOOSE n \in sizes : \A m \in sizes : m <= n

RECURSIVE OverlappingTotal(_, _)
OverlappingTotal(t, i) ==
  IF i > Len(laughter_patterns) THEN 0
  ELSE Cardinality(Occurrences(Lower(t), laughter_patterns[i]))
       + OverlappingTotal(t, i + 1)

RECURSIVE DisjointTotal(_, _)
DisjointTotal(t, i) ==
  IF i > Len(laughter_patterns) THEN 0
  ELSE DisjointOccurrences(Lower(t), laughter_patterns[i])
       + DisjointTotal(t, i + 1)

\* C15 as claimed: the laughter contribution is min(count * 0.1, 0.2), count
\* being the case-insensitive number of occurrences of the six patterns,
\* overlapping occurrences counted.
C15_OverlappingCounted ==
  (ScoredBy("text") /\ args.text # <<>>) =>
    retval.parts.laughter =
      Min(OverlappingTotal(args.text, 1) * Frac(1, 10), Frac(2, 10))

\* C15 amended: the laughter contribution is min(count * 0.1, 0.2), count
\* being the case-insensitive number of occurrences of the six patterns no
\* two of which overlap.
C15_DisjointCounted ==
  (ScoredBy("text") /\ args.text # <<>>) =>
    retval.parts.laughter =
      Min(DisjointTotal(args.text, 1) * Frac(1, 10), Frac(2, 10))

\* C15 witness: a text with two overlapping occurrences, only one of them
\* counted, contributing 0.1.
C15_Witness ==
  /\ ScoredBy("text")
  /\ OverlappingTotal(args.text, 1) = 2
  /\ DisjointTotal(args.text, 1) = 1
  /\ retval.parts.laughter = Frac(1, 10)

\* C16: the audio score lies in [0, 1]; it is 0 when no sample index lies in
\* [int(start * sr), int(end * sr)); and with a negative start or end the
\* samples read are still among those of that interval, never the buffer's
\* tail.
C16_AudioScoreSlice ==
  ScoredBy("audio") =>
    LET lo == Max(args.start_time * args.audio.sr, 0)
        hi == Min(args.end_time * args.audio.sr, args.audio.n)
    IN /\ 0 <= retval.score
       /\ retval.score <= Unit
       /\ (lo >= hi => retval.score = 0)
       /\ ((args.start_time < 0 \/ args.end_time < 0) =>
             \/ retval.first >= retval.stop
             \/ (lo <= retval.first /\ retval.stop <= hi))

\* -------------------------------------------------- the pool's claims
\* Candidate c starts where the input segment at i starts and ends where
\* the one at j ends.
FromTo(c, i, j) ==
  c.start = transcript[i].start /\ c.end = transcript[j].end

\* c lies between the least segment start and the greatest segment end.
InsideSource(c) ==
  /\ \A i \in 1..Len(transcript) :
       (\A k \in 1..Len(transcript) :
          transcript[i].start <= transcript[k].start)
       => transcript[i].start <= c.start
  /\ \A j \in 1..Len(transcript) :
       (\A k \in 1..Len(transcript) : transcript[k].end <= transcript[j].end)
       => c.end <= transcript[j].end

\* C18: for an ordered transcript, every candidate, combined or atomic,
\* starts at the start of some input segment and ends at the end of a segment
\* at the same or a later position, so it lies within the source's bounds.
C18_InsideSource ==
  (outcome = "returned" /\ Monotone) =>
    /\ \A n \in 1..Len(combined_segments) :
         /\ \E i \in 1..Len(transcript), j \in 1..Len(transcript) :
              i <= j /\ FromTo(combined_segments[n], i, j)
         /\ InsideSource(combined_segments[n])
    /\ \A n \in 1..Len(all_candidates) :
         /\ \E i \in 1..Len(transcript), j \in 1..Len(transcript) :
              i <= j /\ FromTo(all_candidates[n], i, j)
         /\ InsideSource(all_candidates[n])

\* C18 witness: a pool holding a combined candidate over two segments in the
\* middle of the transcript, and an atomic candidate.
C18_Witness ==
  /\ Returned
  /\ Monotone
  /\ \E n \in 1..Len(all_candidates), i \in 2..(Len(transcript) - 2) :
       /\ GetSource(all_candidates[n]) = "combined"
       /\ FromTo(all_candidates[n], i, i + 1)
  /\ \E n \in 1..Len(all_candidates), i \in 1..Len(transcript) :
       /\ GetSource(all_candidates[n]) = "unknown"
       /\ FromTo(all_candidates[n], i, i)

\* C20: analyze_engagement and _combine_segments leave their inputs as they
\* found them: the segment list (length, order, every segment's start, end,
\* text and keys) is the same after the call, and the waveform is the one
\* that was decoded.
C20_InputsUnchanged ==
  [][(pc = "transcribing" /\ pc' \in {"analyzed", "merged"}) =>
       /\ transcript' = transcript
       /\ has_key' = has_key
       /\ y' \in Waveforms \cup {NoAudio}]_vars

\* C20 witness: an analysis has scored the stripped text of a segment whose
\* own text still has its surrounding whitespace.
C20_Witness ==
  /\ Returned
  /\ result # <<>>
  /\ \E i \in 1..Len(transcript), n \in 1..Len(scored) :
       /\ transcript[i].text # Trimmed(transcript[i].text)
       /\ scored[n].text = Trimmed(transcript[i].text)
       /\ scored[n].start_time = transcript[i].start
       /\ scored[n].end_time = transcript[i].end

\* ------------------------------------------------ the pipeline's claims
Finished == pc = "finished"

Malformed(seg) == seg.end <= seg.start

\* C17: whatever malformed segments (end <= start) the transcript holds, the
\* analysis returns, every candidate of the pool and every entry of the
\* result ends after it starts, and avg_duration is never a division by 0.
C17_MalformedTolerated ==
  Finished =>
    /\ outcome = "returned"
    /\ \A n \in 1..Len(all_candidates) :
         all_candidates[n].end > all_candidates[n].start
    /\ \A n \in 1..Len(result) :
         /\ result[n].end_time > result[n].start_time
         /\ result[n].duration > 0
    /\ \A n \in 1..Len(avg_duration) : avg_duration[n].divisor # 0

\* C17 witness: a transcript that starts with a malformed segment and ends
\* with one, a well-formed one between them, analysed to a non-empty result
\* with the average taken.
C17_Witness ==
  /\ Finished
  /\ Len(transcript) = 3
  /\ Malformed(transcript[1])
  /\ ~Malformed(transcript[2])
  /\ transcript[3].end < transcript[3].start
  /\ avg_duration # <<>>
  /\ result # <<>>

OutputFiles == {f \in files : f.dir = "outputs"}

\* C19: when the pool holds candidates but none passes the duration filter,
\* analyze_engagement returns an empty list without raising and
\* process_pipeline returns an empty list, calls neither combine_videos nor
\* add_subtitles, and leaves no file among the outputs.
C19_NothingToRender ==
  (Finished /\ all_candidates # <<>> /\ suitable_segments(segments) = <<>>) =>
    /\ outcome = "returned"
    /\ result = <<>>
    /\ generated_clips = <<>>
    /\ video_calls = <<>>
    /\ OutputFiles = {}

\* C19 witness: at least one clip was asked for, the pool held scored
\* candidates, each too long, and nothing was rendered.
C19_Witness ==
  /\ Finished
  /\ num_clips > 0
  /\ Len(segments) >= 2
  /\ \A n \in 1..Len(segments) : segments[n].duration > 60
  /\ generated_clips = <<>>
  /\ AudioPath \in files

\* The path the k-th ranked entry is rendered to (either of the two).
RenderedFrom(path, entry) ==
  /\ path.name \in {"final_clip", "combined_clip"}
  /\ path.start_time = entry.start_time
  /\ path.end_time = entry.end_time

\* C21: process_pipeline renders at most max(num_clips, 0) clips and at most
\* as many as there are engagement segments, the k-th clip being rendered
\* from the k-th entry of the ranked list, for every integer num_clips.
C21_AtMostNumClips ==
  Finished =>
    /\ Len(generated_clips) <= Max(num_clips, 0)
    /\ Len(generated_clips) <= Len(result)
    /\ \A k \in 1..Len(generated_clips) :
         RenderedFrom(generated_clips[k], result[k])

\* C24: every path in the list process_pipeline returns names a file that is
\* on disk when it returns, also when add_subtitles fell back to the
\* combined clip's path.
C24_ReturnedPathsExist ==
  Finished =>
    \A k \in 1..Len(generated_clips) : generated_clips[k] \in files

\* ---------------------------------------------- the front end's claims
\* C25: whatever the input, the sanitized name holds none of the characters
\* \ / : * ? " < > | nor a newline, carriage return or tab, also when the
\* input holds curly quotes or long dashes, and is at most 80 long.
C25_SafeFilename ==
  pc = "named" =>
    /\ \A i \in 1..Len(sanitized) : sanitized[i] \notin UnsafeChars
    /\ Len(sanitized) <= 80

\* C22: once both URLs are in, an empty line at the clip-count prompt makes
\* get_user_input return with num_clips = 3 without asking again; and
\* whenever it returns, num_clips is an integer from 1 to 10.
C22_EmptyTakesDefault ==
  /\ (pc \in {"ask_clips", "returned"} /\ asked > 0 /\ Trimmed(last_line) = <<>>)
       => (pc = "returned" /\ chosen = IntValue(3))
  /\ pc = "returned" =>
       /\ chosen.kind = "int"
       /\ 1 <= chosen.value
       /\ chosen.value <= 10

\* C23: --podcast with --gameplay, and --podcast-url with --gameplay-url,
\* pass the parsing of arguments and reach process_pipeline with both paths
\* (the files existing, the downloads succeeding), and --interactive alone
\* passes the parsing of arguments.
C23_SourcesAccepted ==
  pc = "exited" =>
    /\ argv = {"--podcast", "--gameplay"} =>
         /\ cli_outcome # "usage_error"
         /\ env.exists =>
              /\ cli_outcome = "process_pipeline"
              /\ paths = [podcast |-> "file", gameplay |-> "file"]
    /\ argv = {"--podcast-url", "--gameplay-url"} =>
         /\ cli_outcome # "usage_error"
         /\ env.download_ok =>
              /\ cli_outcome = "process_pipeline"
              /\ paths = [podcast |-> "download", gameplay |-> "download"]
    /\ argv = {"--interactive"} => cli_outcome # "usage_error"
====
